---- MODULE Spec2Model ----
(***************************************************************************)
(* Model of the request handlers of the YouTube data aggregation service.  *)
(* The repository holds several snapshots of the same service; `variant`   *)
(* selects the snapshot whose code a behaviour follows:                    *)
(*   "index_js"  src/index.js lines 176-384 (the first index.js)           *)
(*   "part_001"  src/unnamed/part_001                                      *)
(*   "part_002"  src/unnamed/part_002 lines 83-451 (src/index.js lines     *)
(*               1-175 repeat its fetchers and handlers)                   *)
(*   "part_000"  src/unnamed/part_000 (/api/transcript only; part_002     *)
(*               lines 1-81 hold the later text of that handler)           *)
(* One behaviour is one incoming request: Init draws the endpoint and the  *)
(* query parameters, the handler actions follow the code of the handler,   *)
(* and the upstream actions are the answers of the upstream HTTP API.      *)
(* The upstream payloads of these behaviours follow the data model of the  *)
(* service (a format descriptor has a type, a comment has a likeCount).    *)
(*                                                                         *)
(* A second specification, UnitSpec, applies one pure function of the code *)
(* (parseWebVTT, the shape dispatch of getTranscript, generateStreamLinks  *)
(* of part_002, getFormattedStreams of src/index.js lines 36-84, and the   *)
(* comment ranking of generateLlmReport, formatNumber) to one input,       *)
(* malformed inputs included; strings are sequences of characters there.   *)
(* PairSpec runs two requests at a time, the variable `other` holding the  *)
(* locals of the second one, and LiveSpec is Spec with fairness.           *)
(***************************************************************************)
EXTENDS Integers, Sequences, FiniteSets, TLC

VARIABLES variant, endpoint, videoId, channelId, query, fields,
          pc, tasks, responseKeys, calls,
          channelSt, channelDetails,
          status, contentType, errorBody, finalResponse, report, sent,
          applied, argument, returned, other

vars == <<variant, endpoint, videoId, channelId, query, fields,
          pc, tasks, responseKeys, calls,
          channelSt, channelDetails,
          status, contentType, errorBody, finalResponse, report, sent,
          applied, argument, returned, other>>

\* The function under application, its argument and what it returned: used
\* by the behaviours that apply one pure function of the code to one input.
unit == <<applied, argument, returned, other>>

request == <<variant, endpoint, videoId, channelId, query, fields>>

\* ------------------------------------------------------------------ bounds
\* The longest caption-track list the upstream returns.
MaxCaptionTracks == 2

\* The most transcript segments of a transcript page.
MaxSegments == 2

\* ------------------------------------------------------------------ domains
Variants == {"index_js", "part_001", "part_002"}

Endpoints == {"fetch", "analyze_video", "analyze_search", "transcript", "formats"}

\* The names /api/fetch recognises in `fields`, and one it does not.
FieldNames == {"details", "comments", "transcript", "channel", "search_results"}

FieldTokens == FieldNames \cup {"bogus"}

NoVal == [tag |-> "none", of |-> "", info |-> ""]

\* A rejection reason: an Error with a message, an Error whose message is
\* empty, and a rejection that carries no reason at all (undefined).
Reasons ==
    { [tag |-> "reason", of |-> "Error", info |-> "Request failed"],
      [tag |-> "reason", of |-> "Error", info |-> ""],
      [tag |-> "reason", of |-> "undefined", info |-> ""] }

NoCaptionsMessage == "No captions available for this video."

UnrecognizedFormatMessage == "Could not parse transcript from the received data."

ThrownError(message) == [tag |-> "reason", of |-> "Error", info |-> message]

\* The caption-track list of the first GET of getTranscript: absent, or a
\* list of track paths (track n has path n).
CaptionLists ==
    { [present |-> FALSE, list |-> <<>>] } \cup
    { [present |-> TRUE, list |-> [k \in 1..n |-> k]] : n \in 0..MaxCaptionTracks }

\* The shapes of a caption-track body.
TranscriptShapes ==
    { "string_arrows", "string_plain", "obj_captions", "obj_lines",
      "obj_captions_lines", "list", "obj_other" }

\* response.data of the single GET of a one-step fetcher.
ResponseData(fn) ==
    CASE fn = "getVideoDetails" ->
            { [tag |-> "data", of |-> "videos", info |-> a] : a \in {"authorId", "noAuthorId"} }
      [] fn = "getComments" ->
            { [tag |-> "data", of |-> "comments", info |-> c] : c \in {"comments", "noComments"} }
      [] fn = "getChannelDetails" ->
            { [tag |-> "data", of |-> "authors", info |-> s] : s \in {"subCount", "noSubCount"} }
      [] fn = "performSearch" ->
            { [tag |-> "data", of |-> "search", info |-> "results"] }
      [] fn = "metadata" ->
            { [tag |-> "data", of |-> "video", info |-> m] : m \in {"valid", "notValid"} }
      [] fn = "transcriptPage" ->
            { [tag |-> "data", of |-> "transcript", info |-> "html", segments |-> n] :
                 n \in 0..MaxSegments }

\* ------------------------------------------------------------------ fetchers
\* The GET a fetcher issues when it is called.
FirstGet(fn) ==
    CASE fn = "getVideoDetails" -> <<"videos", 0>>
      [] fn = "getComments" -> <<"comments", 0>>
      [] fn = "getChannelDetails" -> <<"authors", 0>>
      [] fn = "performSearch" -> <<"search", 0>>
      [] fn = "getTranscript" -> <<"captions", 0>>
      [] fn = "metadata" -> <<"video", 0>>
      [] fn = "transcriptPage" -> <<"transcript", 0>>

\* The promise a fetcher returns: pending on its first GET.
Launch(fn) ==
    [fn |-> fn, st |-> "pending",
     phase |-> IF fn = "getTranscript" THEN "captions" ELSE "single",
     val |-> NoVal]

Settled(t) == t.st # "pending"

\* Promise.allSettled that resolves only once every task has fulfilled.
AllSettled_FulfilledOnly(ts) == \A i \in DOMAIN ts : ts[i].st = "fulfilled"

\* Promise.allSettled over the first task alone.
AllSettled_FirstOnly(ts) == \A i \in DOMAIN ts : i = 1 => Settled(ts[i])

\* Promise.allSettled(tasks) has resolved.
AllSettled(ts) == \A i \in DOMAIN ts : Settled(ts[i])

\* getTranscript after its first GET. NoCaptions(captions) is the test
\* `!captions || captions.length === 0`.
NoCaptions(captions) == ~captions.present \/ Len(captions.list) = 0

\* The outcome of getTranscript when the caption list is missing or empty:
\* the first index.js returns an {error: ...} object (a fulfilled promise),
\* the later snapshots throw.
NoCaptionsOutcome(t) ==
    IF variant = "index_js"
    THEN [t EXCEPT !.st = "fulfilled",
                   !.val = [tag |-> "errobj", of |-> "getTranscript", info |-> NoCaptionsMessage]]
    ELSE [t EXCEPT !.st = "rejected", !.val = ThrownError(NoCaptionsMessage)]

\* captions[0]: the track whose body is fetched.
TrackToFetch(list) == list[1]

\* The shape dispatch at the end of getTranscript (part_001, part_002): the
\* value returned, or the Error thrown when no shape matches.
NormalizeTranscript(shape) ==
    CASE shape \in {"string_arrows", "string_plain"} ->
            [tag |-> "transcript", of |-> "parseWebVTT", info |-> shape]
      [] shape \in {"obj_captions", "obj_captions_lines"} ->
            [tag |-> "transcript", of |-> "data.captions", info |-> shape]
      [] shape = "obj_lines" ->
            [tag |-> "transcript", of |-> "data.lines", info |-> shape]
      [] shape = "list" ->
            [tag |-> "transcript", of |-> "data", info |-> shape]
      [] OTHER -> ThrownError(UnrecognizedFormatMessage)

\* The outcome of getTranscript once the track body has arrived: the first
\* index.js returns the body as it is, the later snapshots normalise it.
TranscriptOutcome(t, shape) ==
    IF variant = "index_js"
    THEN [t EXCEPT !.st = "fulfilled",
                   !.val = [tag |-> "data", of |-> "track", info |-> shape]]
    ELSE LET r == NormalizeTranscript(shape) IN
         [t EXCEPT !.st = IF r.tag = "reason" THEN "rejected" ELSE "fulfilled",
                   !.val = r]

\* ------------------------------------------------------------------ upstream
\* The GET of a one-step fetcher is answered: the fetcher returns response.data.
GetFulfil(i) ==
    /\ pc = "await"
    /\ tasks[i].st = "pending" /\ tasks[i].phase = "single"
    /\ \E d \in ResponseData(tasks[i].fn) :
          tasks' = [tasks EXCEPT ![i].st = "fulfilled", ![i].val = d]
    /\ UNCHANGED <<unit, request, pc, responseKeys, calls, channelSt, channelDetails,
                   status, contentType, errorBody, finalResponse, report, sent>>

\* GetReject with a retry: the failed GET is issued again.
GetReject_Retry(i) ==
    /\ pc = "await"
    /\ tasks[i].st = "pending" /\ tasks[i].phase = "single"
    /\ calls' = Append(calls, FirstGet(tasks[i].fn))
    /\ UNCHANGED <<unit, request, pc, tasks, responseKeys, channelSt, channelDetails,
                   status, contentType, errorBody, finalResponse, report, sent>>

\* The GET a fetcher is waiting for fails: the await rethrows the reason.
GetReject(i) ==
    /\ pc = "await"
    /\ tasks[i].st = "pending"
    /\ \E r \in Reasons :
          tasks' = [tasks EXCEPT ![i].st = "rejected", ![i].val = r]
    /\ UNCHANGED <<unit, request, pc, responseKeys, calls, channelSt, channelDetails,
                   status, contentType, errorBody, finalResponse, report, sent>>

\* The caption-list GET of getTranscript is answered: NoCaptions, or the
\* second GET for the body of the first track.
CaptionsFulfil(i) ==
    /\ pc = "await"
    /\ tasks[i].st = "pending" /\ tasks[i].phase = "captions"
    /\ \E captions \in CaptionLists :
          IF NoCaptions(captions)
          THEN /\ tasks' = [tasks EXCEPT ![i] = NoCaptionsOutcome(@)]
               /\ calls' = calls
          ELSE /\ tasks' = [tasks EXCEPT ![i].phase = "track"]
               /\ calls' = Append(calls, <<"track", TrackToFetch(captions.list)>>)
    /\ UNCHANGED <<unit, request, pc, responseKeys, channelSt, channelDetails,
                   status, contentType, errorBody, finalResponse, report, sent>>

\* The track-body GET of getTranscript is answered.
TrackFulfil(i) ==
    /\ pc = "await"
    /\ tasks[i].st = "pending" /\ tasks[i].phase = "track"
    /\ \E shape \in TranscriptShapes :
          tasks' = [tasks EXCEPT ![i] = TranscriptOutcome(@, shape)]
    /\ UNCHANGED <<unit, request, pc, responseKeys, calls, channelSt, channelDetails,
                   status, contentType, errorBody, finalResponse, report, sent>>

\* ------------------------------------------------------------------ responses
\* res.status(code).json({error: message}) and friends: one response sent.
SendError(code, ctype, message) ==
    /\ status' = code
    /\ contentType' = ctype
    /\ errorBody' = message
    /\ sent' = sent + 1
    /\ UNCHANGED <<finalResponse, report>>

\* ------------------------------------------------------------------ /api/fetch
NoTargetMessage == "An 'id', 'channel', or 'search' parameter is required."

NoFieldsMessage == "No valid fields or parameters provided."

UnexpectedMessage == "An unexpected server error occurred."

\* TaskPushed without the channel-id test on the channel task.
TaskPushed_ChannelUngated(key) ==
    CASE key = "details" -> videoId /\ "details" \in fields
      [] key = "comments" -> videoId /\ "comments" \in fields
      [] key = "transcript" -> videoId /\ "transcript" \in fields
      [] key = "channel" -> "channel" \in fields
      [] key = "search_results" -> query

\* TaskPushed with the search task pushed only when `fields` names it.
TaskPushed_SearchGated(key) ==
    CASE key = "details" -> videoId /\ "details" \in fields
      [] key = "comments" -> videoId /\ "comments" \in fields
      [] key = "transcript" -> videoId /\ "transcript" \in fields
      [] key = "channel" -> channelId /\ "channel" \in fields
      [] key = "search_results" -> query /\ "search_results" \in fields

\* The condition under which /api/fetch pushes the task of a response key.
TaskPushed(key) ==
    CASE key = "details" -> videoId /\ "details" \in fields
      [] key = "comments" -> videoId /\ "comments" \in fields
      [] key = "transcript" -> videoId /\ "transcript" \in fields
      [] key = "channel" -> channelId /\ "channel" \in fields
      [] key = "search_results" -> query

\* The fetcher pushed with a response key.
FetcherOf(key) ==
    CASE key = "details" -> "getVideoDetails"
      [] key = "comments" -> "getComments"
      [] key = "transcript" -> "getTranscript"
      [] key = "channel" -> "getChannelDetails"
      [] key = "search_results" -> "performSearch"

\* The order of the pushes.
PushOrder == <<"details", "comments", "transcript", "channel", "search_results">>

\* responseKeys after the pushes.
PushedKeys == SelectSeq(PushOrder, TaskPushed)

\* NoTarget that lets a request with fields and no identifier through.
NoTarget_OnlyWithoutFields == ~videoId /\ ~channelId /\ ~query /\ fields = {}

\* The guard of the first 400: no identifier at all.
NoTarget == ~videoId /\ ~channelId /\ ~query

\* The synchronous prefix of the handler, up to `await Promise.allSettled`.
FetchStart ==
    /\ endpoint = "fetch" /\ pc = "start"
    /\ IF NoTarget
       THEN /\ SendError(400, "application/json", NoTargetMessage)
            /\ pc' = "done"
            /\ UNCHANGED <<tasks, responseKeys, calls>>
       ELSE IF Len(PushedKeys) = 0
       THEN /\ SendError(400, "application/json", NoFieldsMessage)
            /\ pc' = "done"
            /\ UNCHANGED <<tasks, responseKeys, calls>>
       ELSE /\ responseKeys' = PushedKeys
            /\ tasks' = [i \in 1..Len(PushedKeys) |-> Launch(FetcherOf(PushedKeys[i]))]
            /\ calls' = calls \o [i \in 1..Len(PushedKeys) |-> FirstGet(FetcherOf(PushedKeys[i]))]
            /\ pc' = "await"
            /\ UNCHANGED <<status, contentType, errorBody, finalResponse, report, sent>>
    /\ UNCHANGED <<unit, request, channelSt, channelDetails>>

\* Reading `.message` of the reason throws a TypeError: the first index.js
\* reads result.reason.message, the later snapshots result.reason?.message.
MessageThrows(reason) == variant = "index_js" /\ reason.of = "undefined"

\* The `details` of an error descriptor.
DescriptorDetails(reason) ==
    IF variant = "index_js"
    THEN reason.info
    ELSE IF reason.of = "undefined" \/ reason.info = "" THEN "Unknown error" ELSE reason.info

\* MapResult with the task list shared by the requests in progress: the
\* results are those of the other request when it has any.
MapResult_Shared(index) ==
    LET result == IF "tasks" \in DOMAIN other /\ index \in DOMAIN other.tasks
                  THEN other.tasks[index] ELSE tasks[index]
        key == responseKeys[index]
    IN IF result.st = "fulfilled"
       THEN result.val
       ELSE [tag |-> "descriptor", error |-> "Failed to fetch " \o key,
             details |-> DescriptorDetails(result.val)]

\* MapResult that reads the results in the reverse order.
MapResult_Reversed(index) ==
    LET result == tasks[Len(tasks) + 1 - index]
        key == responseKeys[index]
    IN IF result.st = "fulfilled"
       THEN result.val
       ELSE [tag |-> "descriptor", error |-> "Failed to fetch " \o key,
             details |-> DescriptorDetails(result.val)]

\* MapResult whose status test never matches: every result is treated as a
\* rejection.
MapResult_AlwaysDescriptor(index) ==
    LET result == tasks[index]
        key == responseKeys[index]
    IN [tag |-> "descriptor", error |-> "Failed to fetch " \o key,
        details |-> IF result.st = "fulfilled" THEN "Unknown error"
                    ELSE DescriptorDetails(result.val)]

\* The value stored under responseKeys[index] by the forEach callback.
MapResult(index) ==
    LET result == tasks[index]
        key == responseKeys[index]
    IN IF result.st = "fulfilled"
       THEN result.val
       ELSE [tag |-> "descriptor", error |-> "Failed to fetch " \o key,
             details |-> DescriptorDetails(result.val)]

\* obj[key] = value.
Put(obj, key, value) ==
    [k \in DOMAIN obj \cup {key} |-> IF k = key THEN value ELSE obj[k]]

\* results.forEach(...) from index on, finalResponse so far being acc.
RECURSIVE ForEachResult(_, _)
ForEachResult(index, acc) ==
    IF index > Len(tasks)
    THEN acc
    ELSE ForEachResult(index + 1, Put(acc, responseKeys[index], MapResult(index)))

\* The forEach callback throws on some result.
ForEachThrows ==
    \E i \in DOMAIN tasks : tasks[i].st = "rejected" /\ MessageThrows(tasks[i].val)

\* The handler resumes after `await Promise.allSettled(tasks)`.
FetchCompose ==
    /\ endpoint = "fetch" /\ pc = "await"
    /\ AllSettled(tasks)
    /\ IF ForEachThrows
       THEN SendError(500, "application/json", UnexpectedMessage)
       ELSE /\ finalResponse' = ForEachResult(1, <<>>)
            /\ status' = 200
            /\ contentType' = "application/json"
            /\ sent' = sent + 1
            /\ UNCHANGED <<errorBody, report>>
    /\ pc' = "done"
    /\ UNCHANGED <<unit, request, tasks, responseKeys, calls, channelSt, channelDetails>>

\* ------------------------------------------------------------------ /api/analyze_video
MissingVideoIdMessage == "A video ID is required."

\* The text sent by the catch of the handler, up to the error's message.
ReportThrewMessage ==
    IF variant = "index_js"
    THEN "An unexpected error occurred: "
    ELSE "An unexpected server error occurred: "

\* results[0], results[1], results[2] of generateLlmReport.
detailsResult == tasks[1]

commentsResult == tasks[2]

transcriptResult == tasks[3]

\* The handler up to the await inside generateLlmReport.
AnalyzeStart ==
    /\ endpoint = "analyze_video" /\ pc = "start"
    /\ IF ~videoId
       THEN /\ SendError(400, "application/json", MissingVideoIdMessage)
            /\ pc' = "done"
            /\ UNCHANGED <<tasks, calls>>
       ELSE /\ tasks' = <<Launch("getVideoDetails"), Launch("getComments"), Launch("getTranscript")>>
            /\ calls' = calls \o <<FirstGet("getVideoDetails"), FirstGet("getComments"),
                                   FirstGet("getTranscript")>>
            /\ pc' = "await"
            /\ UNCHANGED <<status, contentType, errorBody, finalResponse, report, sent>>
    /\ UNCHANGED <<unit, request, responseKeys, channelSt, channelDetails>>

\* Building the fatal-error string throws: the first index.js reads
\* detailsResult.reason.message, the later snapshots reason?.message.
FatalThrows(reason) == variant = "index_js" /\ reason.of = "undefined"

\* The string returned when the details call was rejected.
FatalString(reason) ==
    IF variant = "index_js"
    THEN "Error: Could not fetch video details for ID X. Reason: " \o reason.info
    ELSE "Fatal Error: " \o
         (IF reason.of = "undefined" \/ reason.info = ""
          THEN (IF variant = "part_002"
                THEN "Could not fetch details" ELSE "Could not fetch video details")
          ELSE reason.info)

\* `if (details.authorId)`: the dependent channel lookup is made.
HasAuthorId(details) == details.info = "authorId"

\* formatNumber(channelDetails.subCount), channelDetails being {} unless the
\* channel lookup succeeded.
Subscribers(ch) == IF ch.tag = "data" /\ ch.info = "subCount" THEN "1,000" ELSE "N/A"

TranscriptUnavailable == "Transcript not available."

CommentsUnavailable == "No comments available or failed to fetch."

\* The first index.js calls transcriptResult.value.map(...) on whatever the
\* track body was, unless it carries an `error` key: a TypeError when the
\* body is no list.
TranscriptRenderThrows ==
    /\ variant = "index_js"
    /\ transcriptResult.st = "fulfilled"
    /\ transcriptResult.val.tag # "errobj"
    /\ transcriptResult.val.info # "list"

\* transcriptText of the report.
TranscriptText ==
    IF transcriptResult.st # "fulfilled"
    THEN TranscriptUnavailable
    ELSE IF variant = "index_js"
    THEN (IF transcriptResult.val.tag = "errobj"
          THEN TranscriptUnavailable ELSE "(0s) transcript lines")
    ELSE (IF transcriptResult.val.info = "string_plain"
          THEN TranscriptUnavailable ELSE "(0:00) transcript lines")

\* topCommentsText of the report.
TopCommentsText ==
    IF commentsResult.st = "fulfilled" /\ commentsResult.val.info = "comments"
    THEN "- top comments" ELSE CommentsUnavailable

\* The heading of the comments section.
CommentsHeading ==
    IF variant = "part_002"
    THEN "**5. Public Opinion (Top 20 Comments):**"
    ELSE "**5. Public Opinion (Top Comments Summary):**"

\* The report template, one element per block of the text.
ReportText(ch) ==
    << "**YouTube Video Analysis Report**",
       "**1. Basic Information:**",
       "**2. Channel Details:**",
       "- **Subscribers:** " \o Subscribers(ch),
       "**3. Video Description:**",
       "**4. Video Transcript (What is being said):**",
       TranscriptText,
       CommentsHeading,
       TopCommentsText >>
    \o (IF variant = "part_002" THEN << "**6. Download & Stream Links:**" >> ELSE << >>)
    \o << "**--- End of Report ---**" >>

\* res.setHeader('Content-Type', 'text/plain; charset=utf-8'); res.send(report)
SendReport(text) ==
    /\ status' = 200
    /\ contentType' = "text/plain; charset=utf-8"
    /\ report' = text
    /\ sent' = sent + 1
    /\ UNCHANGED <<errorBody, finalResponse>>

\* The catch of the handler: res.status(500).send(string), which Express
\* sends as text/html.
SendReportThrew == SendError(500, "text/html; charset=utf-8", ReportThrewMessage)

\* The rest of generateLlmReport once the channel lookup is over (or was
\* not made), and the handler's send.
RenderAndSend(ch) ==
    IF TranscriptRenderThrows THEN SendReportThrew ELSE SendReport(ReportText(ch))

\* generateLlmReport resumes after `await Promise.allSettled([...])`.
ReportResume ==
    /\ endpoint = "analyze_video" /\ pc = "await"
    /\ AllSettled(tasks)
    /\ IF detailsResult.st = "rejected"
       THEN /\ IF FatalThrows(detailsResult.val)
               THEN SendReportThrew
               ELSE SendReport(<< FatalString(detailsResult.val) >>)
            /\ pc' = "done"
            /\ UNCHANGED <<calls, channelSt>>
       ELSE IF HasAuthorId(detailsResult.val)
       THEN /\ calls' = Append(calls, FirstGet("getChannelDetails"))
            /\ channelSt' = "pending"
            /\ pc' = "await_channel"
            /\ UNCHANGED <<status, contentType, errorBody, finalResponse, report, sent>>
       ELSE /\ RenderAndSend(channelDetails)
            /\ pc' = "done"
            /\ UNCHANGED <<calls, channelSt>>
    /\ UNCHANGED <<unit, request, tasks, responseKeys, channelDetails>>

\* `channelDetails = await getChannelDetails(details.authorId)` succeeds.
ChannelFulfil ==
    /\ pc = "await_channel" /\ channelSt = "pending"
    /\ \E d \in ResponseData("getChannelDetails") :
          /\ channelDetails' = d
          /\ RenderAndSend(d)
    /\ channelSt' = "fulfilled"
    /\ pc' = "done"
    /\ UNCHANGED <<unit, request, tasks, responseKeys, calls>>

\* ChannelReject without the try/catch around the lookup: the rejection
\* reaches the catch of the handler.
ChannelReject_Propagates ==
    /\ pc = "await_channel" /\ channelSt = "pending"
    /\ SendReportThrew
    /\ channelSt' = "rejected"
    /\ pc' = "done"
    /\ UNCHANGED <<unit, request, tasks, responseKeys, calls, channelDetails>>

\* The channel lookup fails: `catch (e) {}` leaves channelDetails = {}.
ChannelReject ==
    /\ pc = "await_channel" /\ channelSt = "pending"
    /\ RenderAndSend(channelDetails)
    /\ channelSt' = "rejected"
    /\ pc' = "done"
    /\ UNCHANGED <<unit, request, tasks, responseKeys, calls, channelDetails>>

\* ------------------------------------------------------------------ helpers of the properties
Range(seq) == { seq[i] : i \in DOMAIN seq }

\* The GET paths on which a call was issued.
CalledPaths == { calls[i][1] : i \in DOMAIN calls }

\* The GET path of the first call made for a response key.
PathOf(key) == FirstGet(FetcherOf(key))[1]

FetchStarted == endpoint = "fetch" /\ pc # "start"

FetchResponded == endpoint = "fetch" /\ sent > 0

\* The snapshots whose /api/fetch reads result.reason?.message.
LaterSnapshots == {"part_001", "part_002"}

\* A field of `fields` whose prerequisite identifier was supplied.
RequestedWithPrerequisite(key) ==
    /\ key \in fields
    /\ CASE key \in {"details", "comments", "transcript"} -> videoId
         [] key = "channel" -> channelId
         [] key = "search_results" -> query

\* ------------------------------------------------------------------ C1
\* C1, first half: no response of /api/fetch is sent while a launched task
\* is still pending.
C1_NoResponseWhilePending ==
    FetchResponded => AllSettled(tasks)

\* C1, second half: once /api/fetch has responded, the outcome of every
\* fulfilled task is in the response under its key, whatever happened to
\* the other tasks.
C1_NoOutcomeDiscarded ==
    (FetchResponded /\ Len(tasks) > 0) =>
        \A i \in DOMAIN tasks :
            tasks[i].st = "fulfilled" =>
                /\ responseKeys[i] \in DOMAIN finalResponse
                /\ finalResponse[responseKeys[i]] = tasks[i].val

\* C1: /api/fetch responds only after every launched task has settled, and
\* the failure of one task never discards the outcome of another.
C1_SettleAllBarrier == C1_NoResponseWhilePending /\ C1_NoOutcomeDiscarded

\* ------------------------------------------------------------------ C2
\* C2: in part_001 and part_002, when /api/fetch has launched tasks and is
\* done, it has sent the 200 result whose keys are the response keys, with
\* an error descriptor under the key of every rejected task and the
\* fulfilled value, unchanged, under the key of every fulfilled task.
C2_PartialSuccess ==
    (endpoint = "fetch" /\ pc = "done" /\ Len(tasks) > 0 /\ variant \in LaterSnapshots) =>
        /\ status = 200
        /\ DOMAIN finalResponse = Range(responseKeys)
        /\ \A i \in DOMAIN tasks :
              LET stored == finalResponse[responseKeys[i]] IN
              /\ tasks[i].st = "rejected" => stored.tag = "descriptor"
              /\ tasks[i].st = "fulfilled" => stored = tasks[i].val

\* A response of part_001 or part_002 to a request with one failed and one
\* successful field.
C2_Witness ==
    /\ endpoint = "fetch" /\ pc = "done" /\ variant \in LaterSnapshots
    /\ Len(tasks) = 2
    /\ tasks[1].st = "rejected" /\ tasks[2].st = "fulfilled"
    /\ finalResponse[responseKeys[1]].tag = "descriptor"
    /\ finalResponse[responseKeys[2]] = tasks[2].val

C4_NoTargetFailsFast ==
    (endpoint = "fetch" /\ ~videoId /\ ~channelId /\ ~query) =>
        /\ calls = << >>
        /\ Len(tasks) = 0
        /\ pc # "start" =>
              /\ pc = "done" /\ sent = 1
              /\ status = 400 /\ errorBody = NoTargetMessage

\* The 400 sent to a request that names fields but no identifier.
C4_Witness ==
    /\ endpoint = "fetch" /\ ~videoId /\ ~channelId /\ ~query
    /\ fields = FieldNames
    /\ status = 400 /\ calls = << >>

C6_NeverTopLevel500 ==
    (endpoint = "fetch" /\ pc = "done" /\ Len(tasks) > 0) => status = 200

\* ------------------------------------------------------------------ C7
\* `reason.message`, when the rejection has a message.
HasMessage(reason) == reason.of # "undefined" /\ reason.info # ""

\* C7: in every result of /api/fetch the value under the key of a rejected
\* task is the descriptor {error: "Failed to fetch <key>", details: <the
\* rejection's message, or "Unknown error" when it has none>}.
C7_ErrorDescriptor ==
    (endpoint = "fetch" /\ status = 200) =>
        \A i \in DOMAIN tasks :
            tasks[i].st = "rejected" =>
                LET stored == finalResponse[responseKeys[i]] IN
                /\ stored.tag = "descriptor"
                /\ stored.error = "Failed to fetch " \o responseKeys[i]
                /\ stored.details = IF HasMessage(tasks[i].val)
                                    THEN tasks[i].val.info ELSE "Unknown error"

\* ------------------------------------------------------------------ C8
\* C8: a getTranscript call that settles without a GET for a track body
\* (its caption list was missing or empty, or the first GET failed) is
\* rejected, with the NoCaptions error unless the GET itself failed; and the
\* only track body ever fetched is that of the first track.
C8_NoCaptionsThrows ==
    \A i \in DOMAIN tasks :
        tasks[i].fn = "getTranscript" =>
            /\ (Settled(tasks[i]) /\ "track" \notin CalledPaths) =>
                  /\ tasks[i].st = "rejected"
                  /\ tasks[i].val \in Reasons \cup {ThrownError(NoCaptionsMessage)}
            /\ \A c \in DOMAIN calls : calls[c][1] = "track" => calls[c][2] = 1
            /\ Cardinality({ c \in DOMAIN calls : calls[c][1] = "track" }) <= 1

\* ------------------------------------------------------------------ C9
ReportDone == endpoint = "analyze_video" /\ pc = "done" /\ Len(tasks) = 3

\* The blocks of a report that render the transcript and the comments.
SectionBlocks ==
    { "**4. Video Transcript (What is being said):**",
      "**5. Public Opinion (Top 20 Comments):**",
      "**5. Public Opinion (Top Comments Summary):**",
      "**6. Download & Stream Links:**" }

\* C9: when the details call of generateLlmReport was rejected, the function
\* returns a one-line fatal-error string: no channel lookup is made and no
\* transcript, comments or stream section is rendered, whatever the outcomes
\* of the comments and transcript calls.
C9_FatalErrorString ==
    (ReportDone /\ detailsResult.st = "rejected") =>
        /\ Len(report) = 1
        /\ Range(report) \cap SectionBlocks = {}
        /\ "authors" \notin CalledPaths
        /\ channelSt = "none"

\* ------------------------------------------------------------------ C10
\* C10: the channel lookup of generateLlmReport is made only when the
\* details call succeeded with an author id; and in part_001 and part_002 a
\* failed channel lookup is swallowed: the full report is sent, as
\* text/plain with status 200, with the subscribers rendered as "N/A".
C10_ChannelBestEffort ==
    endpoint = "analyze_video" =>
        /\ ("authors" \in CalledPaths \/ channelSt # "none") =>
              /\ detailsResult.st = "fulfilled"
              /\ HasAuthorId(detailsResult.val)
        /\ (pc = "done" /\ channelSt = "rejected" /\ variant \in LaterSnapshots) =>
              /\ status = 200 /\ sent = 1
              /\ contentType = "text/plain; charset=utf-8"
              /\ Len(report) >= 10
              /\ report[4] = "- **Subscribers:** N/A"
              /\ report[6] = "**4. Video Transcript (What is being said):**"
              /\ report[7] = TranscriptText
              /\ report[8] = CommentsHeading
              /\ report[9] = TopCommentsText

\* A full report of part_002 sent after a failed channel lookup, while the
\* transcript call had failed too.
C10_Witness ==
    /\ endpoint = "analyze_video" /\ pc = "done" /\ variant = "part_002"
    /\ channelSt = "rejected"
    /\ transcriptResult.st = "rejected"
    /\ status = 200
    /\ report[4] = "- **Subscribers:** N/A"

\* ------------------------------------------------------------------ C11
\* The details call of generateLlmReport succeeded with an author id and
\* the channel lookup has not been issued yet.
ChannelLookupDue ==
    /\ endpoint = "analyze_video" /\ pc = "await" /\ Len(tasks) = 3
    /\ detailsResult.st = "fulfilled"
    /\ HasAuthorId(detailsResult.val)
    /\ channelSt = "none"

\* C11 as stated: once the details call has succeeded, the channel lookup
\* never has to wait for a pending transcript or comments call: whenever
\* the lookup is due, generateLlmReport can go on and issue it.
C11_ChannelNotBlocked ==
    ChannelLookupDue => ENABLED ReportResume

\* C11, amended: the channel lookup is issued only after the details, the
\* comments and the transcript call have all settled, and only when the
\* details call succeeded with an author id; once the three have settled
\* the lookup can be issued whatever the outcomes of the comments and the
\* transcript call.
C11_ChannelAfterAllSettled ==
    /\ (endpoint = "analyze_video" /\ "authors" \in CalledPaths) =>
          /\ \A i \in DOMAIN tasks : tasks[i].st # "pending"
          /\ detailsResult.st = "fulfilled"
          /\ HasAuthorId(detailsResult.val)
    /\ (ChannelLookupDue /\ \A i \in DOMAIN tasks : tasks[i].st # "pending") =>
          ENABLED ReportResume

\* The channel lookup in flight after the transcript call has failed and the
\* comments call has succeeded.
C11_Witness ==
    /\ endpoint = "analyze_video" /\ pc = "await_channel"
    /\ channelSt = "pending"
    /\ "authors" \in CalledPaths
    /\ transcriptResult.st = "rejected"
    /\ commentsResult.st = "fulfilled"

\* ------------------------------------------------------------------ C12
\* C12: every response of /api/analyze_video to a request with a video id
\* has the content type text/plain and a non-empty body, on the normal
\* path, on the fatal-error path and on the path where generateLlmReport
\* throws.
C12_ReportIsTextPlain ==
    (endpoint = "analyze_video" /\ videoId /\ sent > 0) =>
        /\ contentType = "text/plain; charset=utf-8"
        /\ IF status = 200
           THEN Len(report) > 0 /\ \A i \in DOMAIN report : report[i] # ""
           ELSE errorBody # ""

\* ================================================================== pure functions
\* JavaScript strings are sequences of one-character strings, so that
\* includes, split, trim, startsWith, parseInt and parseFloat are computed
\* on the characters as the engine computes them.
Chars_Arrow == <<"-", "-", ">">>

Chars_SpacedArrow == <<" ", "-", "-", ">", " ">>

Chars_Colon == <<":">>

Chars_Newline == <<"\n">>

Chars_Space == <<" ">>

Chars_Dot == "."

Chars_undefined == <<"u", "n", "d", "e", "f", "i", "n", "e", "d">>

Chars_VideoPrefix == <<"v", "i", "d", "e", "o", "/">>

Chars_AudioPrefix == <<"a", "u", "d", "i", "o", "/">>

WhiteSpace == {" ", "\n", "\t", "\r"}

DigitChars == <<"0", "1", "2", "3", "4", "5", "6", "7", "8", "9">>

IsDigit(c) == \E n \in DOMAIN DigitChars : DigitChars[n] = c

DigitValue(c) == (CHOOSE n \in DOMAIN DigitChars : DigitChars[n] = c) - 1

\* s has sub at position k.
HasAt(s, sub, k) ==
    /\ k + Len(sub) - 1 <= Len(s)
    /\ \A n \in 1..Len(sub) : s[k + n - 1] = sub[n]

\* String.prototype.indexOf, 1-based, 0 when sub does not occur.
IndexOf(s, sub) ==
    LET hits == { k \in 1..Len(s) : HasAt(s, sub, k) } IN
    IF hits = {} THEN 0 ELSE CHOOSE k \in hits : \A m \in hits : k <= m

\* String.prototype.includes
Includes(s, sub) == IndexOf(s, sub) # 0

\* String.prototype.startsWith
StartsWith(s, prefix) == HasAt(s, prefix, 1)

\* String.prototype.split(sep), sep not empty
RECURSIVE Split(_, _)
Split(s, sep) ==
    LET k == IndexOf(s, sep) IN
    IF k = 0 THEN << s >>
    ELSE << SubSeq(s, 1, k - 1) >> \o Split(SubSeq(s, k + Len(sep), Len(s)), sep)

\* String.prototype.trim
Trim(s) ==
    LET kept == { k \in 1..Len(s) : s[k] \notin WhiteSpace } IN
    IF kept = {} THEN << >>
    ELSE SubSeq(s, CHOOSE k \in kept : \A m \in kept : k <= m,
                   CHOOSE k \in kept : \A m \in kept : k >= m)

\* The white space that parseInt and parseFloat skip.
TrimStart(s) ==
    LET kept == { k \in 1..Len(s) : s[k] \notin WhiteSpace } IN
    IF kept = {} THEN << >>
    ELSE SubSeq(s, CHOOSE k \in kept : \A m \in kept : k <= m, Len(s))

\* The longest prefix of s made of decimal digits.
LeadingDigits(s) ==
    LET n == CHOOSE k \in 0..Len(s) :
                 /\ \A m \in 1..k : IsDigit(s[m])
                 /\ k < Len(s) => ~IsDigit(s[k + 1])
    IN SubSeq(s, 1, n)

RECURSIVE DecimalValue(_)
DecimalValue(digits) ==
    IF Len(digits) = 0 THEN 0
    ELSE DecimalValue(SubSeq(digits, 1, Len(digits) - 1)) * 10
         + DigitValue(digits[Len(digits)])

\* A JavaScript number is NaN or the fraction m / d with d = 1 or d = 1000,
\* which is exact for the integers and the three-digit fractions of the
\* inputs; the fractions of the inputs (.000, .500) are exact in binary
\* floating point too.
NaN == [nan |-> TRUE, m |-> 0, d |-> 1]

Num(n) == [nan |-> FALSE, m |-> n, d |-> 1]

\* The numerator of a over the denominator d
Numerator(a, d) == IF a.d = d THEN a.m ELSE a.m * (d \div a.d)

Plus(a, b) ==
    IF a.nan \/ b.nan THEN NaN
    ELSE LET d == IF a.d > b.d THEN a.d ELSE b.d IN
         [nan |-> FALSE, m |-> Numerator(a, d) + Numerator(b, d), d |-> d]

\* a * k for an integer literal k
Times(a, k) ==
    IF a.nan THEN NaN
    ELSE IF a.d = k THEN [nan |-> FALSE, m |-> a.m, d |-> 1]
    ELSE [nan |-> FALSE, m |-> a.m * k, d |-> a.d]

\* parseInt(s, 10) of an unsigned string
ParseInt(s) ==
    LET digits == LeadingDigits(TrimStart(s)) IN
    IF Len(digits) = 0 THEN NaN ELSE Num(DecimalValue(digits))

\* The first three digits of a fraction, as thousandths.
Thousandths(digits) ==
    DecimalValue(SubSeq(digits \o <<"0", "0", "0">>, 1, 3))

\* parseFloat(s) of an unsigned string without exponent
ParseFloat(s) ==
    LET body == TrimStart(s)
        whole == LeadingDigits(body)
        rest == SubSeq(body, Len(whole) + 1, Len(body))
        fraction == IF Len(rest) > 0 /\ rest[1] = Chars_Dot
                    THEN LeadingDigits(SubSeq(rest, 2, Len(rest)))
                    ELSE << >>
    IN IF Len(whole) = 0 /\ Len(fraction) = 0 THEN NaN
       ELSE [nan |-> FALSE, m |-> DecimalValue(whole) * 1000 + Thousandths(fraction),
             d |-> 1000]

\* array[k] of a list of strings, 0-based k: `undefined` past the end, which
\* parseInt and parseFloat read as the string "undefined".
ElementAt(list, k) == IF k + 1 \in DOMAIN list THEN list[k + 1] ELSE Chars_undefined

\* ------------------------------------------------------------------ parseWebVTT
\* The index of the first empty line after line i, or Len(lines) + 1: where
\* the loop `while (j < lines.length && lines[j] !== '')` stops.
TextEnd(lines, i) ==
    CHOOSE j \in (i + 1)..(Len(lines) + 1) :
        /\ \A n \in (i + 1)..(j - 1) : lines[n] # << >>
        /\ j <= Len(lines) => lines[j] = << >>

\* `text += lines[j] + ' '` for the lines from..to
RECURSIVE CueText(_, _, _)
CueText(lines, from, to) ==
    IF from > to THEN << >>
    ELSE lines[from] \o Chars_Space \o CueText(lines, from + 1, to)

\* `seconds` of the cue line
CueSeconds(line) ==
    LET timeParts == Split(line, Chars_SpacedArrow)
        startTime == timeParts[1]
        timeSegments == Split(startTime, Chars_Colon)
    IN Plus(Plus(Times(ParseInt(ElementAt(timeSegments, 0)), 3600),
                 Times(ParseInt(ElementAt(timeSegments, 1)), 60)),
            ParseFloat(ElementAt(timeSegments, 2)))

\* The for loop of parseWebVTT from line i on (lines are numbered from 1).
RECURSIVE ScanLines(_, _, _)
ScanLines(lines, i, transcript) ==
    IF i > Len(lines) THEN transcript
    ELSE IF Includes(lines[i], Chars_Arrow)
    THEN LET j == TextEnd(lines, i)
             entry == [start |-> Times(CueSeconds(lines[i]), 1000),
                       text |-> Trim(CueText(lines, i + 1, j - 1))]
         IN ScanLines(lines, j + 1, Append(transcript, entry))
    ELSE ScanLines(lines, i + 1, transcript)

\* A value received from the upstream, by what `typeof` and Array.isArray
\* say of it: a string (text), null, a number, an array (items) or another
\* object, whose `captions` and `lines` properties are absent, a list, or
\* some value that is not a list.
StringData(text) ==
    [t |-> "string", text |-> text, items |-> << >>,
     captions |-> [is |-> "absent", list |-> << >>],
     lines |-> [is |-> "absent", list |-> << >>]]

ArrayData(items) ==
    [t |-> "array", text |-> << >>, items |-> items,
     captions |-> [is |-> "absent", list |-> << >>],
     lines |-> [is |-> "absent", list |-> << >>]]

ObjectData(captions, lines) ==
    [t |-> "object", text |-> << >>, items |-> << >>,
     captions |-> captions, lines |-> lines]

ScalarData(t) ==
    [t |-> t, text |-> << >>, items |-> << >>,
     captions |-> [is |-> "absent", list |-> << >>],
     lines |-> [is |-> "absent", list |-> << >>]]

parseWebVTT(vttString) ==
    IF vttString.t # "string" THEN << >>
    ELSE ScanLines(Split(vttString.text, Chars_Newline), 1, << >>)

\* What applying a function gave: a value, or a thrown error.
Returns(value) == [threw |-> FALSE, value |-> value, error |-> ""]

Throws(message) == [threw |-> TRUE, value |-> << >>, error |-> message]

\* No value yet.
Pending == [threw |-> FALSE, value |-> << >>, error |-> "pending"]

NullPropertyMessage == "Cannot read properties of null (reading 'captions')"

\* ------------------------------------------------------------------ getTranscript, after the track GET
\* What getTranscript does with the body `data` of the track, in part_001
\* and part_002.
TranscriptOf_LinesFirst(data) ==
    IF data.t = "string" THEN Returns(parseWebVTT(data))
    ELSE IF data.t = "null" THEN Throws(NullPropertyMessage)
    ELSE IF data.t \in {"object", "array"}
    THEN IF data.lines.is = "list" THEN Returns(data.lines.list)
         ELSE IF data.captions.is = "list" THEN Returns(data.captions.list)
         ELSE IF data.t = "array" THEN Returns(data.items)
         ELSE Throws(UnrecognizedFormatMessage)
    ELSE Throws(UnrecognizedFormatMessage)

\* typeof null is 'object', so a null body throws a TypeError on
\* data.captions.
TranscriptOf(data) ==
    IF data.t = "string" THEN Returns(parseWebVTT(data))
    ELSE IF data.t = "null" THEN Throws(NullPropertyMessage)
    ELSE IF data.t \in {"object", "array"}
    THEN IF data.captions.is = "list" THEN Returns(data.captions.list)
         ELSE IF data.lines.is = "list" THEN Returns(data.lines.list)
         ELSE IF data.t = "array" THEN Returns(data.items)
         ELSE Throws(UnrecognizedFormatMessage)
    ELSE Throws(UnrecognizedFormatMessage)

\* ------------------------------------------------------------------ stream links
\* An optional property of an upstream object.
Absent == [has |-> FALSE, v |-> << >>]

Some(v) == [has |-> TRUE, v |-> v]

\* String(n) of a non-negative integer
RECURSIVE DecimalChars(_)
DecimalChars(n) ==
    IF n < 10 THEN << DigitChars[n + 1] >>
    ELSE DecimalChars(n \div 10) \o << DigitChars[(n % 10) + 1] >>

\* `${x}` of an optional integer: "undefined" when the property is absent
TemplateOf(x) == IF x.has THEN DecimalChars(x.v) ELSE Chars_undefined

Chars_bps == <<"b", "p", "s">>

Chars_kbps == <<"k", "b", "p", "s">>

Chars_NaN == <<"N", "a", "N">>

Chars_NA == <<"N", "/", "A">>

\* `${Math.round(bitrate / 1000)}`: NaN for an absent bitrate, otherwise the
\* nearest integer, halves rounded up.
RoundedThousands(bitrate) ==
    IF bitrate.has THEN DecimalChars((bitrate.v + 500) \div 1000) ELSE Chars_NaN

\* `a || b` of two optional strings (no label of the inputs is empty)
OrElse(a, b) == IF a.has THEN a ELSE b

StartsWithThrowsMessage == "Cannot read properties of undefined (reading 'startsWith')"

\* An entry of a category: its quality and the itag of its descriptor.
LinkEntry(quality, format) == [quality |-> quality, itag |-> format.itag]

\* The forEach over formatStreams of generateStreamLinks
RECURSIVE CombinedLinks(_)
CombinedLinks(formats) ==
    IF Len(formats) = 0 THEN << >>
    ELSE << LinkEntry(Head(formats).qualityLabel, Head(formats)) >>
         \o CombinedLinks(Tail(formats))

\* The forEach over formatStreams of getFormattedStreams
RECURSIVE VideoWithAudio(_)
VideoWithAudio(formats) ==
    IF Len(formats) = 0 THEN << >>
    ELSE << LinkEntry(OrElse(OrElse(Head(formats).qualityLabel, Head(formats).resolution),
                             Some(Chars_NA)),
                      Head(formats)) >>
         \o VideoWithAudio(Tail(formats))

\* `format.type.startsWith(prefix)` of a descriptor that has a type
TypeStartsWith(format, prefix) == StartsWith(format.type.v, prefix)

\* The forEach over adaptiveFormats of generateStreamLinks, from the state
\* acc = [videoOnly, audioOnly, threw] on.
RECURSIVE AdaptiveLinks(_, _)
AdaptiveLinks(formats, acc) ==
    IF Len(formats) = 0 THEN acc
    ELSE LET format == Head(formats) IN
         IF ~format.type.has THEN [acc EXCEPT !.threw = TRUE]
         ELSE IF TypeStartsWith(format, Chars_VideoPrefix)
         THEN AdaptiveLinks(Tail(formats),
                  [acc EXCEPT !.videoOnly = Append(@, LinkEntry(format.qualityLabel, format))])
         ELSE IF TypeStartsWith(format, Chars_AudioPrefix)
         THEN AdaptiveLinks(Tail(formats),
                  [acc EXCEPT !.audioOnly =
                       Append(@, LinkEntry(Some(TemplateOf(format.bitrate) \o Chars_bps), format))])
         ELSE AdaptiveLinks(Tail(formats), acc)

\* The forEach over adaptiveFormats of getFormattedStreams
RECURSIVE AdaptiveStreams(_, _)
AdaptiveStreams(formats, acc) ==
    IF Len(formats) = 0 THEN acc
    ELSE LET stream == Head(formats)
             quality == OrElse(OrElse(stream.qualityLabel, stream.resolution), Some(Chars_NA))
         IN
         IF ~stream.type.has THEN [acc EXCEPT !.threw = TRUE]
         ELSE IF TypeStartsWith(stream, Chars_VideoPrefix)
         THEN AdaptiveStreams(Tail(formats),
                  [acc EXCEPT !.videoOnly = Append(@, LinkEntry(quality, stream))])
         ELSE IF TypeStartsWith(stream, Chars_AudioPrefix)
         THEN AdaptiveStreams(Tail(formats),
                  [acc EXCEPT !.audioOnly =
                       Append(@, LinkEntry(Some(RoundedThousands(stream.bitrate) \o Chars_kbps),
                                           stream))])
         ELSE AdaptiveStreams(Tail(formats), acc)

NoLinks == [videoOnly |-> << >>, audioOnly |-> << >>, threw |-> FALSE]

\* The categories a formatter returns, or the TypeError of startsWith.
StreamResult(combined, adaptive) ==
    IF adaptive.threw THEN Throws(StartsWithThrowsMessage)
    ELSE Returns([combined |-> combined,
                  videoOnly |-> adaptive.videoOnly,
                  audioOnly |-> adaptive.audioOnly])

\* generateStreamLinks(videoDetails) of part_002
generateStreamLinks(videoDetails) ==
    StreamResult(
        IF videoDetails.formatStreams.is = "list"
        THEN CombinedLinks(videoDetails.formatStreams.list) ELSE << >>,
        IF videoDetails.adaptiveFormats.is = "list"
        THEN AdaptiveLinks(videoDetails.adaptiveFormats.list, NoLinks) ELSE NoLinks)

\* getFormattedStreams(details) of src/index.js; its categories
\* video_with_audio, video_only and audio_only are named as in part_002.
getFormattedStreams(details) ==
    StreamResult(
        IF details.formatStreams.is = "list"
        THEN VideoWithAudio(details.formatStreams.list) ELSE << >>,
        IF details.adaptiveFormats.is = "list"
        THEN AdaptiveStreams(details.adaptiveFormats.list, NoLinks) ELSE NoLinks)

\* ------------------------------------------------------------------ comment ranking
\* The number of comments generateLlmReport renders.
TopN == IF variant = "part_002" THEN 20 ELSE 3

\* `likeCount || 0`
LikeOrZero(c) == IF c.likeCount.has THEN c.likeCount.v ELSE 0

\* The compare function given to sort, as sort reads it: a NaN result (a
\* difference with an undefined likeCount, in the first index.js) counts
\* as +0.
comparefn(a, b) ==
    IF variant = "index_js"
    THEN IF a.likeCount.has /\ b.likeCount.has THEN b.likeCount.v - a.likeCount.v ELSE 0
    ELSE LikeOrZero(b) - LikeOrZero(a)

\* comparefn is a consistent comparator on the elements of list.
Consistent(list) ==
    \A i, j, k \in DOMAIN list :
        /\ (comparefn(list[i], list[j]) = 0 /\ comparefn(list[j], list[k]) = 0)
               => comparefn(list[i], list[k]) = 0
        /\ (comparefn(list[i], list[j]) < 0 /\ comparefn(list[j], list[k]) < 0)
               => comparefn(list[i], list[k]) < 0
        /\ (comparefn(list[i], list[j]) > 0 /\ comparefn(list[j], list[k]) > 0)
               => comparefn(list[i], list[k]) > 0

\* x inserted behind the last element that does not come after it.
InsertInto(sorted, x) ==
    LET before == { k \in DOMAIN sorted : comparefn(sorted[k], x) <= 0 }
        p == IF before = {} THEN 0 ELSE CHOOSE k \in before : \A m \in before : k >= m
    IN SubSeq(sorted, 1, p) \o << x >> \o SubSeq(sorted, p + 1, Len(sorted))

\* The stable sort by a consistent comparator.
RECURSIVE StableSort(_)
StableSort(list) ==
    IF Len(list) = 0 THEN << >>
    ELSE InsertInto(StableSort(SubSeq(list, 1, Len(list) - 1)), list[Len(list)])

Rearrangements(list) ==
    { [k \in DOMAIN list |-> list[p[k]]] :
        p \in { f \in [DOMAIN list -> DOMAIN list] :
                  \A a, b \in DOMAIN list : a # b => f[a] # f[b] } }

\* Array.prototype.sort(comparefn): stable for a consistent comparator;
\* for an inconsistent one the order is implementation-defined.
SortOutcomes(list) ==
    IF Consistent(list) THEN { StableSort(list) } ELSE Rearrangements(list)

\* Array.prototype.slice(0, n)
Slice(list, n) == SubSeq(list, 1, IF Len(list) < n THEN Len(list) ELSE n)

\* ------------------------------------------------------------------ formatNumber
Chars_Comma == <<",">>

\* The three digits of a group below the first.
GroupOfThree(n) ==
    << DigitChars[(n \div 100) + 1], DigitChars[((n \div 10) % 10) + 1], DigitChars[(n % 10) + 1] >>

\* new Intl.NumberFormat('en-US').format(n) of a non-negative integer
RECURSIVE NumberFormat(_)
NumberFormat(n) ==
    IF n < 1000 THEN DecimalChars(n)
    ELSE NumberFormat(n \div 1000) \o Chars_Comma \o GroupOfThree(n % 1000)

\* A numeric field of an upstream object: undefined, null or a number.
MissingField(t) == [t |-> t, n |-> 0]

NumberField(n) == [t |-> "number", n |-> n]

\* formatNumber(num): the first index.js tests `num ?`, the later snapshots
\* `num != null ?`.
formatNumber(num) ==
    IF variant = "index_js"
    THEN IF num.t = "number" /\ num.n # 0 THEN NumberFormat(num.n) ELSE Chars_NA
    ELSE IF num.t \notin {"null", "undefined"} THEN NumberFormat(num.n) ELSE Chars_NA

\* ------------------------------------------------------------------ inputs
\* The largest number drawn from 0 on for formatNumber; LargeNumbers adds
\* numbers of three groups.
MaxNumber == 1100

LargeNumbers == {999999, 1000000, 1234567}

NumericFields ==
    { MissingField("undefined"), MissingField("null") }
    \cup { NumberField(n) : n \in (0..MaxNumber) \cup LargeNumbers }

\* The longest captions text, in lines.
MaxLines == 4

\* The longest list under `captions`, under `lines`, or as the whole body.
MaxEntries == 2

\* The longest formatStreams and adaptiveFormats list.
MaxFormats == 2

\* The longest comment list drawn in full; LongComments adds lists longer
\* than the largest top N.
MaxComments == 4

Lists(set, max) == UNION { [1..n -> set] : n \in 0..max }

VttLineSet ==
    { << >>,
      <<"W", "E", "B", "V", "T", "T">>,
      <<"H", "e", "l", "l", "o", " ", "w", "o", "r", "l", "d">>,
      <<"0", "0", ":", "0", "1", ":", "0", "5", ".", "0", "0", "0", " ", "-", "-", ">", " ", "0", "0", ":", "0", "1", ":", "0", "7", ".", "0", "0", "0">>,
      <<"0", "1", ":", "0", "0", ":", "0", "2", ".", "5", "0", "0", " ", "-", "-", ">", " ", "0", "1", ":", "0", "0", ":", "0", "4", ".", "0", "0", "0">>,
      <<"0", "1", ":", "0", "5", ".", "0", "0", "0", " ", "-", "-", ">", " ", "0", "1", ":", "0", "7", ".", "0", "0", "0">> }

\* The lines joined by "\n".
RECURSIVE JoinLines(_)
JoinLines(ls) ==
    IF Len(ls) = 0 THEN << >>
    ELSE IF Len(ls) = 1 THEN ls[1]
    ELSE ls[1] \o Chars_Newline \o JoinLines(Tail(ls))

VttTexts == { JoinLines(ls) : ls \in Lists(VttLineSet, MaxLines) }

TranscriptEntries ==
    { [start |-> Num(1000), text |-> <<"h", "i">>],
      [start |-> Num(2500), text |-> <<"y", "o">>] }

\* A `captions` or `lines` property: absent, not a list, or a list.
ListProperties(set, max) ==
    { [is |-> "absent", list |-> << >>], [is |-> "other", list |-> << >>] }
    \cup { [is |-> "list", list |-> l] : l \in Lists(set, max) }

\* The bodies of the track GET.
TrackBodies ==
    { StringData(text) : text \in VttTexts }
    \cup { ObjectData(c, l) : c \in ListProperties(TranscriptEntries, MaxEntries),
                              l \in ListProperties(TranscriptEntries, MaxEntries) }
    \cup { ArrayData(l) : l \in Lists(TranscriptEntries, MaxEntries) }
    \cup { ScalarData("null"), ScalarData("number") }

Format(itag, type, qualityLabel, resolution, bitrate) ==
    [itag |-> itag, type |-> type, qualityLabel |-> qualityLabel,
     resolution |-> resolution, bitrate |-> bitrate]

Chars_720p == <<"7", "2", "0", "p">>

Chars_1280x720 == <<"1", "2", "8", "0", "x", "7", "2", "0">>

Chars_VideoMp4 == <<"v", "i", "d", "e", "o", "/", "m", "p", "4">>

Chars_AudioWebm == <<"a", "u", "d", "i", "o", "/", "w", "e", "b", "m">>

Chars_TextVtt == <<"t", "e", "x", "t", "/", "v", "t", "t">>

\* Combined descriptors: with a quality label, with a resolution only, with
\* neither.
CombinedFormats ==
    { Format(18, Some(Chars_VideoMp4), Some(Chars_720p), Some(Chars_1280x720), Absent),
      Format(22, Some(Chars_VideoMp4), Absent, Some(Chars_1280x720), Absent),
      Format(36, Some(Chars_VideoMp4), Absent, Absent, Absent) }

\* Adaptive descriptors: video (label, resolution only, neither), audio
\* (bitrate without label, bitrate that rounds up with a label, no
\* bitrate), another type prefix, no type.
AdaptiveFormats ==
    { Format(137, Some(Chars_VideoMp4), Some(Chars_720p), Some(Chars_1280x720), Some(2500000)),
      Format(136, Some(Chars_VideoMp4), Absent, Some(Chars_1280x720), Absent),
      Format(135, Some(Chars_VideoMp4), Absent, Absent, Absent),
      Format(140, Some(Chars_AudioWebm), Absent, Absent, Some(128000)),
      Format(251, Some(Chars_AudioWebm), Some(Chars_720p), Absent, Some(127500)),
      Format(250, Some(Chars_AudioWebm), Absent, Absent, Absent),
      Format(300, Some(Chars_TextVtt), Absent, Absent, Some(1000)),
      Format(301, Absent, Absent, Absent, Absent) }

\* The details records given to the stream-link formatters.
DetailsRecords ==
    { [formatStreams |-> f, adaptiveFormats |-> a] :
        f \in ListProperties(CombinedFormats, MaxFormats),
        a \in ListProperties(AdaptiveFormats, MaxFormats) }

LikeCounts == { Absent, Some(0), Some(5), Some(10) }

\* Lists of one comment more than the largest top N, every likeCount
\* present: rising, all equal, and in three groups.
LongComments ==
    { [k \in 1..(20 + 1) |-> [id |-> k, likeCount |-> Some(k)]],
      [k \in 1..(20 + 1) |-> [id |-> k, likeCount |-> Some(5)]],
      [k \in 1..(20 + 1) |-> [id |-> k, likeCount |-> Some((k % 3) * 5)]] }

\* The comment lists given to the ranking: comment k of a list has id k.
CommentLists ==
    { [k \in DOMAIN f |-> [id |-> k, likeCount |-> f[k]]] : f \in Lists(LikeCounts, MaxComments) }
    \cup LongComments

\* ------------------------------------------------------------------ /api/analyze_search
\* The longest list of search results.
MaxResults == 2

\* The item types of the search results: the three the report keeps and
\* one it does not.
SearchItemTypes == {"video", "channel", "playlist", "hashtag"}

\* response.data of the search GET: null, or a list of items, given by
\* their types.
SearchPayloads ==
    { [tag |-> "data", of |-> "search", info |-> "null", items |-> << >>] }
    \cup { [tag |-> "data", of |-> "search", info |-> "list", items |-> l] :
              l \in Lists(SearchItemTypes, MaxResults) }

MissingQueryMessage == "A search query 'q' is required."

NoResultsMessage == "No search results found."

SearchThrewMessage == "An unexpected error occurred during search: "

\* NoSearchResults without the test of the length.
NoSearchResults_NullOnly(searchResults) == searchResults.info = "null"

\* `!searchResults || searchResults.length === 0`
NoSearchResults(searchResults) ==
    searchResults.info = "null" \/ Len(searchResults.items) = 0

\* The value the map callback of part_002 returns for item k: an object
\* tagged with the type of the item, or null.
FormattedResult(items, k) ==
    IF items[k] \in {"video", "channel", "playlist"}
    THEN [kept |-> TRUE, type |-> items[k], item |-> k]
    ELSE [kept |-> FALSE, type |-> "", item |-> k]

\* FormattedResults with filter(Boolean) left out.
FormattedResults_Unfiltered(items) == [k \in DOMAIN items |-> FormattedResult(items, k)]

\* searchResults.map(...).filter(Boolean) of part_002
FormattedResults(items) ==
    SelectSeq([k \in DOMAIN items |-> FormattedResult(items, k)], LAMBDA r : r.kept)

\* The map of part_001: every item is formatted as a video, with the
\* subscribers of the channel call made for it (task k + 1).
VideoResults(items) ==
    [k \in DOMAIN items |->
        [kept |-> TRUE, type |-> "", item |-> k,
         subscribers |-> Subscribers(IF tasks[k + 1].st = "fulfilled"
                                     THEN tasks[k + 1].val ELSE NoVal)]]

\* res.json(report)
SendJson(body) ==
    /\ finalResponse' = body
    /\ status' = 200
    /\ contentType' = "application/json"
    /\ sent' = sent + 1
    /\ UNCHANGED <<errorBody, report>>

FrameworkErrorMessage == "Internal Server Error"

\* `catch (error) { res.status(500).json({error: `...${error.message}`}) }`
\* with the rejection reason as error: reading .message of undefined
\* throws inside the catch and the promise of the async handler is
\* rejected. Express 4 does not look at that promise, so nothing is sent;
\* Express 5 passes the rejection to its error handler, which answers 500.
\* The source does not say which one it runs on.
CatchSends(error, message) ==
    IF error.of = "undefined"
    THEN \/ /\ pc' = "threw"
            /\ UNCHANGED <<status, contentType, errorBody, finalResponse, report, sent>>
         \/ /\ SendError(500, "text/html; charset=utf-8", FrameworkErrorMessage)
            /\ pc' = "done"
    ELSE /\ SendError(500, "application/json", message)
         /\ pc' = "done"

\* The handler up to `await performSearch(query)`.
SearchStart ==
    /\ endpoint = "analyze_search" /\ pc = "start"
    /\ IF ~query
       THEN /\ SendError(400, "application/json", MissingQueryMessage)
            /\ pc' = "done"
            /\ UNCHANGED <<tasks, calls>>
       ELSE /\ tasks' = << Launch("performSearch") >>
            /\ calls' = Append(calls, FirstGet("performSearch"))
            /\ pc' = "await_search"
            /\ UNCHANGED <<status, contentType, errorBody, finalResponse, report, sent>>
    /\ UNCHANGED <<unit, request, responseKeys, channelSt, channelDetails>>

\* The search GET is answered and generateLlmSearchReport goes on: the
\* no-results object, the formatted results of part_002, or in part_001 one
\* channel call for each item.
SearchFulfil ==
    /\ endpoint = "analyze_search" /\ pc = "await_search"
    /\ \E searchResults \in SearchPayloads :
          IF NoSearchResults(searchResults)
          THEN /\ tasks' = [tasks EXCEPT ![1].st = "fulfilled", ![1].val = searchResults]
               /\ SendJson([message |-> NoResultsMessage, results |-> << >>])
               /\ pc' = "done"
               /\ calls' = calls
          ELSE IF variant = "part_001"
          THEN /\ tasks' = << [tasks[1] EXCEPT !.st = "fulfilled", !.val = searchResults] >>
                           \o [k \in DOMAIN searchResults.items |-> Launch("getChannelDetails")]
               /\ calls' = calls \o [k \in DOMAIN searchResults.items |->
                                        FirstGet("getChannelDetails")]
               /\ pc' = "await"
               /\ UNCHANGED <<status, contentType, errorBody, finalResponse, report, sent>>
          ELSE /\ tasks' = [tasks EXCEPT ![1].st = "fulfilled", ![1].val = searchResults]
               /\ SendJson([results |-> FormattedResults(searchResults.items)])
               /\ pc' = "done"
               /\ calls' = calls
    /\ UNCHANGED <<unit, request, responseKeys, channelSt, channelDetails>>

\* The search GET fails: generateLlmSearchReport throws the reason to the
\* catch of the handler.
SearchReject ==
    /\ endpoint = "analyze_search" /\ pc = "await_search"
    /\ \E r \in Reasons :
          /\ tasks' = [tasks EXCEPT ![1].st = "rejected", ![1].val = r]
          /\ CatchSends(r, SearchThrewMessage)
    /\ UNCHANGED <<unit, request, responseKeys, calls, channelSt, channelDetails>>

\* part_001 resumes after `await Promise.allSettled(channelDetailPromises)`.
SearchCompose ==
    /\ endpoint = "analyze_search" /\ pc = "await"
    /\ AllSettled(tasks)
    /\ SendJson([results |-> VideoResults(tasks[1].val.items)])
    /\ pc' = "done"
    /\ UNCHANGED <<unit, request, tasks, responseKeys, calls, channelSt, channelDetails>>

\* ------------------------------------------------------------------ /api/transcript
\* (the source puts backquotes around v)
MissingVParameterMessage == "YouTube video ID is required. Use the v query parameter."

VideoNotFoundMessage == "Video not found or details could not be retrieved."

InternalErrorMessage == "An internal server error occurred."

\* The handler up to `await Promise.allSettled(promises)`.
TranscriptStart ==
    /\ endpoint = "transcript" /\ pc = "start"
    /\ IF ~videoId
       THEN /\ SendError(400, "application/json", MissingVParameterMessage)
            /\ pc' = "done"
            /\ UNCHANGED <<tasks, calls>>
       ELSE /\ tasks' = << Launch("metadata"), Launch("transcriptPage") >>
            /\ calls' = calls \o << FirstGet("metadata"), FirstGet("transcriptPage") >>
            /\ pc' = "await"
            /\ UNCHANGED <<status, contentType, errorBody, finalResponse, report, sent>>
    /\ UNCHANGED <<unit, request, responseKeys, channelSt, channelDetails>>

\* `metadataPromise.status === 'rejected' || !metadataPromise.value.data.valid`
MetadataUnusable(metadataPromise) ==
    metadataPromise.st = "rejected" \/ metadataPromise.val.info # "valid"

NullTranscript == [shape |-> "null", segments |-> 0]

\* The transcript of a page that was fetched: null without segments; the
\* joined texts in part_002, the array of {text, start} in part_000.
TranscriptOfPage(page) ==
    IF page.segments > 0
    THEN [shape |-> IF variant = "part_000" THEN "array" ELSE "string",
          segments |-> page.segments]
    ELSE NullTranscript

\* The handler after the allSettled. The else branch of the transcript
\* reads transcriptPromise.reason.message: with the reason undefined this
\* throws a TypeError to the catch of the handler.
TranscriptCompose ==
    /\ endpoint = "transcript" /\ pc = "await"
    /\ AllSettled(tasks)
    /\ LET metadataPromise == tasks[1]
           transcriptPromise == tasks[2] IN
       IF MetadataUnusable(metadataPromise)
       THEN SendError(404, "application/json", VideoNotFoundMessage)
       ELSE IF transcriptPromise.st = "fulfilled"
       THEN SendJson([success |-> TRUE, metadata |-> metadataPromise.val,
                      transcript |-> TranscriptOfPage(transcriptPromise.val)])
       ELSE IF transcriptPromise.val.of = "undefined"
       THEN SendError(500, "application/json", InternalErrorMessage)
       ELSE SendJson([success |-> TRUE, metadata |-> metadataPromise.val,
                      transcript |-> NullTranscript])
    /\ pc' = "done"
    /\ UNCHANGED <<unit, request, tasks, responseKeys, calls, channelSt, channelDetails>>

\* ------------------------------------------------------------------ /api/formats
MissingFormatsIdMessage == "A video ID 'v' is required."

FormatsFailedMessage == "Failed to get formats: "

\* The handler up to `await getVideoDetails(videoId)`.
FormatsStart ==
    /\ endpoint = "formats" /\ pc = "start"
    /\ IF ~videoId
       THEN /\ SendError(400, "application/json", MissingFormatsIdMessage)
            /\ pc' = "done"
            /\ UNCHANGED <<tasks, calls>>
       ELSE /\ tasks' = << Launch("getVideoDetails") >>
            /\ calls' = Append(calls, FirstGet("getVideoDetails"))
            /\ pc' = "await_details"
            /\ UNCHANGED <<status, contentType, errorBody, finalResponse, report, sent>>
    /\ UNCHANGED <<unit, request, responseKeys, channelSt, channelDetails>>

\* The details GET is answered, by any record of the stream-link inputs:
\* the links are sent, or the TypeError of generateStreamLinks is caught.
FormatsFulfil ==
    /\ endpoint = "formats" /\ pc = "await_details"
    /\ \E videoDetails \in DetailsRecords :
          LET links == generateStreamLinks(videoDetails) IN
          /\ tasks' = [tasks EXCEPT ![1].st = "fulfilled",
                                    ![1].val = [tag |-> "data", of |-> "videos",
                                                info |-> "formats", details |-> videoDetails]]
          /\ IF links.threw
             THEN SendError(500, "application/json", FormatsFailedMessage)
             ELSE SendJson(links.value)
    /\ pc' = "done"
    /\ UNCHANGED <<unit, request, responseKeys, calls, channelSt, channelDetails>>

\* The details GET fails: the reason is thrown to the catch of the handler.
FormatsReject ==
    /\ endpoint = "formats" /\ pc = "await_details"
    /\ \E r \in Reasons :
          /\ tasks' = [tasks EXCEPT ![1].st = "rejected", ![1].val = r]
          /\ CatchSends(r, FormatsFailedMessage)
    /\ UNCHANGED <<unit, request, responseKeys, calls, channelSt, channelDetails>>

\* ------------------------------------------------------------------ specification
\* The snapshots that have the endpoint.
VariantsOf(e) ==
    CASE e \in {"fetch", "analyze_video"} -> Variants
      [] e = "analyze_search" -> {"part_001", "part_002"}
      [] e = "transcript" -> {"part_000", "part_002"}
      [] e = "formats" -> {"part_002"}

Init ==
    /\ endpoint \in Endpoints
    /\ variant \in VariantsOf(endpoint)
    /\ videoId \in (IF endpoint = "analyze_search" THEN {FALSE} ELSE BOOLEAN)
    /\ channelId \in (IF endpoint = "fetch" THEN BOOLEAN ELSE {FALSE})
    /\ query \in (IF endpoint \in {"fetch", "analyze_search"} THEN BOOLEAN ELSE {FALSE})
    /\ fields \in (IF endpoint = "fetch" THEN SUBSET FieldTokens ELSE {{}})
    /\ pc = "start"
    /\ tasks = << >>
    /\ responseKeys = << >>
    /\ calls = << >>
    /\ channelSt = "none"
    /\ channelDetails = NoVal
    /\ status = 0
    /\ contentType = ""
    /\ errorBody = ""
    /\ finalResponse = << >>
    /\ report = << >>
    /\ sent = 0
    /\ applied = "none"
    /\ argument = NoVal
    /\ returned = NoVal
    /\ other = NoVal

Next ==
    \/ FetchStart
    \/ FetchCompose
    \/ AnalyzeStart
    \/ ReportResume
    \/ ChannelFulfil
    \/ ChannelReject
    \/ SearchStart
    \/ SearchFulfil
    \/ SearchReject
    \/ SearchCompose
    \/ TranscriptStart
    \/ TranscriptCompose
    \/ FormatsStart
    \/ FormatsFulfil
    \/ FormatsReject
    \/ \E i \in DOMAIN tasks : GetFulfil(i)
    \/ \E i \in DOMAIN tasks : GetReject(i)
    \/ \E i \in DOMAIN tasks : CaptionsFulfil(i)
    \/ \E i \in DOMAIN tasks : TrackFulfil(i)

Spec == Init /\ [][Next]_vars

\* Every upstream call is answered in the end, and a handler whose await
\* has resolved is resumed by the event loop: no step that can be taken is
\* put off forever.
LiveSpec == Init /\ [][Next]_vars /\ WF_vars(Next)

\* ------------------------------------------------------------------ two requests at a time
\* Node runs the handlers of concurrent requests on one thread: a handler
\* runs from one await to the next without interruption, and between two
\* such segments the event loop may go on with any request. The variables
\* of the handler hold the request whose segment runs next; `other` holds
\* the locals of the second request in progress.
Locals ==
    [endpoint |-> endpoint, videoId |-> videoId, channelId |-> channelId,
     query |-> query, fields |-> fields,
     pc |-> pc, tasks |-> tasks, responseKeys |-> responseKeys, calls |-> calls,
     channelSt |-> channelSt, channelDetails |-> channelDetails,
     status |-> status, contentType |-> contentType, errorBody |-> errorBody,
     finalResponse |-> finalResponse, report |-> report, sent |-> sent]

\* The locals of a handler that has just been called for request r.
Called(r) ==
    [endpoint |-> r.endpoint, videoId |-> r.videoId, channelId |-> r.channelId,
     query |-> r.query, fields |-> r.fields,
     pc |-> "start", tasks |-> << >>, responseKeys |-> << >>, calls |-> << >>,
     channelSt |-> "none", channelDetails |-> NoVal,
     status |-> 0, contentType |-> "", errorBody |-> "",
     finalResponse |-> << >>, report |-> << >>, sent |-> 0]

\* The requests of the two-request behaviours.
PairRequests ==
    { [endpoint |-> "fetch", videoId |-> TRUE, channelId |-> FALSE, query |-> FALSE,
       fields |-> f] : f \in {{"details"}, {"details", "comments"}} }
    \cup { [endpoint |-> "analyze_video", videoId |-> TRUE, channelId |-> FALSE,
            query |-> FALSE, fields |-> {}] }

PairInit ==
    /\ variant = "part_002"
    /\ \E r \in PairRequests :
          /\ endpoint = r.endpoint /\ videoId = r.videoId /\ channelId = r.channelId
          /\ query = r.query /\ fields = r.fields
    /\ other \in { Called(r) : r \in PairRequests }
    /\ pc = "start"
    /\ tasks = << >> /\ responseKeys = << >> /\ calls = << >>
    /\ channelSt = "none" /\ channelDetails = NoVal
    /\ status = 0 /\ contentType = "" /\ errorBody = ""
    /\ finalResponse = << >> /\ report = << >> /\ sent = 0
    /\ applied = "none" /\ argument = NoVal /\ returned = NoVal

\* The event loop goes on with the other request.
Switch ==
    /\ other' = Locals
    /\ endpoint' = other.endpoint /\ videoId' = other.videoId
    /\ channelId' = other.channelId /\ query' = other.query /\ fields' = other.fields
    /\ pc' = other.pc /\ tasks' = other.tasks /\ responseKeys' = other.responseKeys
    /\ calls' = other.calls
    /\ channelSt' = other.channelSt /\ channelDetails' = other.channelDetails
    /\ status' = other.status /\ contentType' = other.contentType
    /\ errorBody' = other.errorBody /\ finalResponse' = other.finalResponse
    /\ report' = other.report /\ sent' = other.sent
    /\ UNCHANGED <<variant, applied, argument, returned>>

PairNext ==
    \/ FetchStart
    \/ FetchCompose
    \/ AnalyzeStart
    \/ ReportResume
    \/ ChannelFulfil
    \/ ChannelReject
    \/ \E i \in DOMAIN tasks : GetFulfil(i)
    \/ \E i \in DOMAIN tasks : GetReject(i)
    \/ \E i \in DOMAIN tasks : CaptionsFulfil(i)
    \/ \E i \in DOMAIN tasks : TrackFulfil(i)
    \/ Switch

PairSpec == PairInit /\ [][PairNext]_vars

\* ------------------------------------------------------------------ specification of the pure functions
\* One behaviour applies one function of the code to one input.
UnitFunctions ==
    {"parseWebVTT", "getTranscript", "generateStreamLinks", "getFormattedStreams",
     "topComments", "formatNumber"}

Arguments(f) ==
    CASE f = "parseWebVTT" -> { StringData(text) : text \in VttTexts } \cup {ScalarData("number")}
      [] f = "getTranscript" -> TrackBodies
      [] f \in {"generateStreamLinks", "getFormattedStreams"} -> DetailsRecords
      [] f = "topComments" -> CommentLists
      [] f = "formatNumber" -> NumericFields

handler == <<pc, tasks, responseKeys, calls, channelSt, channelDetails,
             status, contentType, errorBody, finalResponse, report, sent, other>>

UnitInit ==
    /\ applied \in UnitFunctions
    /\ argument \in Arguments(applied)
    /\ returned = Pending
    /\ variant \in (IF applied \in {"topComments", "formatNumber"}
                     THEN Variants ELSE {"part_002"})
    /\ endpoint = "none"
    /\ videoId = FALSE /\ channelId = FALSE /\ query = FALSE /\ fields = {}
    /\ pc = "unit"
    /\ tasks = << >> /\ responseKeys = << >> /\ calls = << >>
    /\ channelSt = "none" /\ channelDetails = NoVal
    /\ status = 0 /\ contentType = "" /\ errorBody = ""
    /\ finalResponse = << >> /\ report = << >> /\ sent = 0
    /\ other = NoVal

HasReturned == returned.error # "pending"

ApplyParseWebVTT ==
    /\ applied = "parseWebVTT" /\ ~HasReturned
    /\ returned' = Returns(parseWebVTT(argument))
    /\ UNCHANGED <<request, handler, applied, argument>>

ApplyGetTranscript ==
    /\ applied = "getTranscript" /\ ~HasReturned
    /\ returned' = TranscriptOf(argument)
    /\ UNCHANGED <<request, handler, applied, argument>>

ApplyGenerateStreamLinks ==
    /\ applied = "generateStreamLinks" /\ ~HasReturned
    /\ returned' = generateStreamLinks(argument)
    /\ UNCHANGED <<request, handler, applied, argument>>

ApplyGetFormattedStreams ==
    /\ applied = "getFormattedStreams" /\ ~HasReturned
    /\ returned' = getFormattedStreams(argument)
    /\ UNCHANGED <<request, handler, applied, argument>>

\* `comments.sort(comparefn).slice(0, N)` of generateLlmReport
ApplyTopComments ==
    /\ applied = "topComments" /\ ~HasReturned
    /\ \E sorted \in SortOutcomes(argument) :
          returned' = Returns(Slice(sorted, TopN))
    /\ UNCHANGED <<request, handler, applied, argument>>

ApplyFormatNumber ==
    /\ applied = "formatNumber" /\ ~HasReturned
    /\ returned' = Returns(formatNumber(argument))
    /\ UNCHANGED <<request, handler, applied, argument>>

UnitNext ==
    \/ ApplyParseWebVTT
    \/ ApplyGetTranscript
    \/ ApplyGenerateStreamLinks
    \/ ApplyGetFormattedStreams
    \/ ApplyTopComments
    \/ ApplyFormatNumber

UnitSpec == UnitInit /\ [][UnitNext]_vars

\* ------------------------------------------------------------------ helpers of the properties of the pure functions
\* Function f has been applied to `argument` and `returned` holds the result.
Applied(f) == applied = f /\ HasReturned

StreamFormatters == {"generateStreamLinks", "getFormattedStreams"}

\* The lines of a captions text that hold the marker "-->", in order.
CueLines(text) ==
    SelectSeq(Split(text, Chars_Newline), LAMBDA line : Includes(line, Chars_Arrow))

\* The list under a property, empty unless the property is a list.
ListOf(property) == IF property.is = "list" THEN property.list ELSE << >>

\* The adaptive descriptors whose type starts with prefix, in order.
FormatsOfType(details, prefix) ==
    SelectSeq(ListOf(details.adaptiveFormats),
              LAMBDA f : f.type.has /\ StartsWith(f.type.v, prefix))

\* ------------------------------------------------------------------ C13
\* The body matches one of the four shapes of the normalizer: text with an
\* arrow marker, an object with a captions list, an object with a lines
\* list, a bare list.
RecognizedShape(data) ==
    \/ data.t = "string" /\ Includes(data.text, Chars_Arrow)
    \/ data.t \in {"object", "array"} /\ data.captions.is = "list"
    \/ data.t \in {"object", "array"} /\ data.lines.is = "list"
    \/ data.t = "array"

\* C13: for every track body that matches none of the four shapes (an object
\* with neither a captions nor a lines list, a text without "-->", ...)
\* getTranscript fails with the unrecognized-format error and returns no
\* transcript.
C13_UnrecognizedFormatFails ==
    (Applied("getTranscript") /\ ~RecognizedShape(argument)) =>
        /\ returned.threw
        /\ returned.error = UnrecognizedFormatMessage

\* ------------------------------------------------------------------ C14
\* C14: getTranscript resolves the shape of the track body first match
\* first: a text with arrow markers gives the parsed cues, else an object
\* with a captions list gives that list, else an object with a lines list
\* gives that list, else a bare list gives the list; an object with both
\* lists gives the captions list; the matched list is returned as it is.
C14_FirstMatchWins ==
    Applied("getTranscript") =>
        /\ (argument.t = "string" /\ Includes(argument.text, Chars_Arrow)) =>
              /\ ~returned.threw
              /\ returned.value = parseWebVTT(argument)
              /\ Len(returned.value) >= 1
        /\ (argument.t = "object" /\ argument.captions.is = "list") =>
              /\ ~returned.threw
              /\ returned.value = argument.captions.list
        /\ (argument.t = "object" /\ argument.captions.is # "list"
                                  /\ argument.lines.is = "list") =>
              /\ ~returned.threw
              /\ returned.value = argument.lines.list
        /\ argument.t = "array" =>
              /\ ~returned.threw
              /\ returned.value = argument.items

\* An object with a captions list of two entries and a different lines
\* list, for which the captions list was returned.
C14_Witness ==
    /\ Applied("getTranscript")
    /\ argument.t = "object"
    /\ argument.captions.is = "list" /\ Len(argument.captions.list) = 2
    /\ argument.lines.is = "list" /\ argument.lines.list # argument.captions.list
    /\ Len(argument.lines.list) > 0
    /\ returned.value = argument.captions.list

\* ------------------------------------------------------------------ C15, C16
\* The start of a cue line in milliseconds with the hours segment optional:
\* three segments are hours, minutes, seconds; two are minutes, seconds.
StartMillis(line) ==
    LET segments == Split(Split(line, Chars_SpacedArrow)[1], Chars_Colon) IN
    IF Len(segments) = 2
    THEN Times(Plus(Times(ParseInt(segments[1]), 60), ParseFloat(segments[2])), 1000)
    ELSE Times(Plus(Plus(Times(ParseInt(segments[1]), 3600),
                         Times(ParseInt(segments[2]), 60)),
                    ParseFloat(segments[3])), 1000)

\* C15: for a captions text with N lines holding "-->", parseWebVTT returns
\* exactly N entries, entry k being the k-th cue of the text, each with a
\* numeric start that is not negative; cues with a two-segment start and
\* cues that follow the text of the previous cue without an empty line
\* included.
C15_OneEntryPerCue ==
    (Applied("parseWebVTT") /\ argument.t = "string") =>
        LET cues == CueLines(argument.text) IN
        /\ Len(returned.value) = Len(cues)
        /\ \A k \in DOMAIN returned.value :
              /\ ~returned.value[k].start.nan
              /\ returned.value[k].start.m >= 0
              /\ k \in DOMAIN cues => returned.value[k].start = StartMillis(cues[k])

\* C16: the start of a cue is (hours*3600 + minutes*60 + seconds)*1000 ms,
\* the hours segment being optional: the first entry parseWebVTT returns has
\* the start of the first cue line computed that way ("00:01:05.000" and
\* "01:05.000" both give 65000).
C16_StartInMillis ==
    (Applied("parseWebVTT") /\ argument.t = "string"
                            /\ Len(CueLines(argument.text)) > 0) =>
        /\ Len(returned.value) > 0
        /\ returned.value[1].start = StartMillis(CueLines(argument.text)[1])

\* ------------------------------------------------------------------ C17
\* C17: the formatter gives one audioOnly entry for each adaptive descriptor
\* with an audio type, and the quality of the entry is round(bitrate/1000)
\* followed by "kbps" whatever the quality label (128000 gives "128kbps").
C17_AudioQualityKbps ==
    (applied \in StreamFormatters /\ HasReturned /\ ~returned.threw) =>
        LET audio == FormatsOfType(argument, Chars_AudioPrefix) IN
        /\ Len(returned.value.audioOnly) = Len(audio)
        /\ \A k \in DOMAIN audio :
              audio[k].bitrate.has =>
                  returned.value.audioOnly[k].quality =
                      Some(DecimalChars((audio[k].bitrate.v + 500) \div 1000) \o Chars_kbps)

\* ------------------------------------------------------------------ C18
\* The quality label of a descriptor, else its resolution, else "N/A".
LabelResolutionOrNA(format) ==
    IF format.qualityLabel.has THEN format.qualityLabel
    ELSE IF format.resolution.has THEN format.resolution
    ELSE Some(Chars_NA)

\* C18: the formatter gives exactly one entry for each combined descriptor
\* and each adaptive video descriptor, in order, whose quality is the
\* quality label, else the resolution, else "N/A", and never undefined.
C18_VideoQualityFallback ==
    (applied \in StreamFormatters /\ HasReturned /\ ~returned.threw) =>
        LET combined == ListOf(argument.formatStreams)
            video == FormatsOfType(argument, Chars_VideoPrefix)
        IN
        /\ Len(returned.value.combined) = Len(combined)
        /\ \A k \in DOMAIN combined :
              /\ returned.value.combined[k].itag = combined[k].itag
              /\ returned.value.combined[k].quality.has
              /\ returned.value.combined[k].quality = LabelResolutionOrNA(combined[k])
        /\ Len(returned.value.videoOnly) = Len(video)
        /\ \A k \in DOMAIN video :
              /\ returned.value.videoOnly[k].itag = video[k].itag
              /\ returned.value.videoOnly[k].quality.has
              /\ returned.value.videoOnly[k].quality = LabelResolutionOrNA(video[k])

\* ------------------------------------------------------------------ C19
\* C19: the formatter raises no error for any details record: a
\* formatStreams or adaptiveFormats that is absent or not a list gives empty
\* categories, an adaptive descriptor is in videoOnly or in audioOnly by its
\* type prefix and never in both, and a descriptor without type or with
\* another prefix is in neither.
C19_FormatterNeverRaises ==
    (applied \in StreamFormatters /\ HasReturned) =>
        /\ ~returned.threw
        /\ argument.formatStreams.is # "list" => returned.value.combined = << >>
        /\ argument.adaptiveFormats.is # "list" =>
              returned.value.videoOnly = << >> /\ returned.value.audioOnly = << >>
        /\ [k \in DOMAIN returned.value.videoOnly |-> returned.value.videoOnly[k].itag]
              = [k \in DOMAIN FormatsOfType(argument, Chars_VideoPrefix) |->
                    FormatsOfType(argument, Chars_VideoPrefix)[k].itag]
        /\ [k \in DOMAIN returned.value.audioOnly |-> returned.value.audioOnly[k].itag]
              = [k \in DOMAIN FormatsOfType(argument, Chars_AudioPrefix) |->
                    FormatsOfType(argument, Chars_AudioPrefix)[k].itag]

\* ------------------------------------------------------------------ C20
\* Comment i of the list ranks before comment j: more likes, a missing
\* likeCount counting as 0, or as many likes and an earlier position.
RanksBefore(list, i, j) ==
    \/ LikeOrZero(list[i]) > LikeOrZero(list[j])
    \/ LikeOrZero(list[i]) = LikeOrZero(list[j]) /\ i < j

\* The list in descending likeCount order, ties in their original order.
Ranked(list) ==
    [k \in DOMAIN list |->
        list[CHOOSE i \in DOMAIN list :
                Cardinality({ j \in DOMAIN list : RanksBefore(list, j, i) }) = k - 1]]

\* C20: the comments the report renders are the first N (20 or 3) of the
\* comments in descending likeCount order, a missing likeCount counting as
\* 0 and comments with equal likeCount keeping their original order.
C20_TopCommentsRanking ==
    Applied("topComments") => returned.value = Slice(Ranked(argument), TopN)

\* ------------------------------------------------------------------ C21
\* The characters of s that are not a comma.
WithoutCommas(s) == SelectSeq(s, LAMBDA c : c # ",")

\* The commas of s stand before every group of three digits counted from
\* the end, and nowhere else.
GroupedByThree(s) ==
    \A k \in DOMAIN s : (s[k] = ",") <=> (k < Len(s) /\ (Len(s) - k + 1) % 4 = 0)

\* C21: formatNumber gives "N/A" exactly when the field is missing (null or
\* undefined): a number, 0 included, is rendered as its digits in groups of
\* three separated by commas, and a missing field is never rendered as "0"
\* or as the empty string.
C21_NAExactlyWhenMissing ==
    Applied("formatNumber") =>
        /\ (returned.value = Chars_NA) <=> (argument.t \in {"null", "undefined"})
        /\ argument.t = "number" =>
              /\ WithoutCommas(returned.value) = DecimalChars(argument.n)
              /\ GroupedByThree(returned.value)
        /\ argument.t \in {"null", "undefined"} =>
              /\ returned.value # <<"0">>
              /\ returned.value # << >>

\* ------------------------------------------------------------------ C22
\* The payload the search GET was answered with.
searchResult == tasks[1]

IsList(x) == DOMAIN x = 1 .. Len(x)

\* The search GET of an /api/analyze_search request has been answered.
SearchAnswered ==
    endpoint = "analyze_search" /\ Len(tasks) > 0 /\ tasks[1].st = "fulfilled"

\* C22: every 200 response of /api/analyze_search holds a `results` list;
\* when the upstream search gave no results the response is the message
\* "No search results found." with an empty list; and `results` is a list,
\* an empty one, when every item is of an unrecognized type.
C22_ResultsAlwaysList ==
    (endpoint = "analyze_search" /\ sent > 0 /\ status = 200) =>
        /\ "results" \in DOMAIN finalResponse
        /\ IsList(finalResponse.results)
        /\ Len(searchResult.val.items) = 0 =>
              finalResponse = [message |-> NoResultsMessage, results |-> << >>]
        /\ (variant = "part_002"
            /\ \A k \in DOMAIN searchResult.val.items :
                  searchResult.val.items[k] \notin {"video", "channel", "playlist"}) =>
              finalResponse.results = << >>

\* A 200 response of part_002 to a search whose only items are of an
\* unrecognized type: `results` is the empty list, without the message.
C22_Witness ==
    /\ endpoint = "analyze_search" /\ variant = "part_002"
    /\ sent = 1 /\ status = 200
    /\ searchResult.val.items = <<"hashtag", "hashtag">>
    /\ finalResponse = [results |-> << >>]

\* ------------------------------------------------------------------ C23
RecognizedTypes == {"video", "channel", "playlist"}

\* C23: in the report of part_002 every result item carries a type among
\* video, channel and playlist, the type of the upstream item it was made
\* from; the results are the upstream items of these types, each once and
\* in the upstream order; items of another type are dropped and the
\* response is still the 200 report.
C23_TypedResultsInOrder ==
    (SearchAnswered /\ variant = "part_002" /\ pc = "done") =>
        LET items == searchResult.val.items
            results == finalResponse.results IN
        /\ sent = 1 /\ status = 200
        /\ \A i \in DOMAIN results :
              /\ results[i].type \in RecognizedTypes
              /\ results[i].item \in DOMAIN items
              /\ results[i].type = items[results[i].item]
        /\ \A i, j \in DOMAIN results : i < j => results[i].item < results[j].item
        /\ \A k \in DOMAIN items :
              items[k] \in RecognizedTypes <=> \E i \in DOMAIN results : results[i].item = k

\* A report made from an item of an unrecognized type followed by a
\* playlist: the playlist alone is in the results.
C23_Witness ==
    /\ SearchAnswered /\ variant = "part_002" /\ pc = "done"
    /\ searchResult.val.items = <<"hashtag", "playlist">>
    /\ status = 200
    /\ Len(finalResponse.results) = 1
    /\ finalResponse.results[1].type = "playlist"

\* ------------------------------------------------------------------ C24
\* C24: /api/transcript answers only after both of its requests have
\* settled; it answers 400 when `v` is missing, 404 when the metadata
\* request was rejected or its payload is not marked valid, and otherwise
\* 200 with the metadata and a transcript field, which is null whenever the
\* transcript request failed or gave no segments: a failure of the
\* transcript request alone never fails the request.
C24_TranscriptFailureNeverFails ==
    (endpoint = "transcript" /\ sent > 0) =>
        IF ~videoId THEN status = 400 /\ tasks = << >>
        ELSE /\ AllSettled(tasks)
             /\ IF MetadataUnusable(tasks[1]) THEN status = 404
                ELSE /\ status = 200
                     /\ finalResponse.success
                     /\ finalResponse.metadata = tasks[1].val
                     /\ (tasks[2].st = "rejected" \/ tasks[2].val.segments = 0) =>
                           finalResponse.transcript = NullTranscript

\* ------------------------------------------------------------------ C25
\* calls is an initial part of calls'.
CallsKept ==
    /\ Len(calls) <= Len(calls')
    /\ \A a \in DOMAIN calls : calls'[a] = calls[a]

\* No step changes a task that has failed; and in /api/fetch and
\* /api/analyze_video the calls issued so far go to different paths, a
\* track body being fetched only for the first track and only after the
\* caption list.
NoRetryStep ==
    /\ CallsKept
    /\ \A i \in DOMAIN tasks :
          tasks[i].st = "rejected" => i \in DOMAIN tasks' /\ tasks'[i] = tasks[i]
    /\ endpoint \in {"fetch", "analyze_video"} =>
          /\ \A a, b \in DOMAIN calls' : calls'[a][1] = calls'[b][1] => a = b
          /\ \A a \in DOMAIN calls' :
                calls'[a][1] = "track" =>
                   /\ calls'[a][2] = 1
                   /\ \E b \in 1..(a - 1) : calls'[b][1] = "captions"

\* C25: there is no retry. Within a request every upstream path is called
\* at most once (getTranscript makes at most two GETs, the caption list and
\* then the body of the first track), and a task that has failed stays
\* failed: no call is issued again after a failure.
C25_NoRetry == [][NoRetryStep]_vars

\* A /api/fetch request answered after its transcript call failed on the
\* track body and its details call failed: one GET for details, two for the
\* transcript.
C25_Witness ==
    /\ endpoint = "fetch" /\ pc = "done" /\ status = 200
    /\ Len(tasks) = 2
    /\ tasks[1].fn = "getVideoDetails" /\ tasks[1].st = "rejected"
    /\ tasks[2].fn = "getTranscript" /\ tasks[2].st = "rejected" /\ tasks[2].phase = "track"
    /\ Len(calls) = 3

\* ------------------------------------------------------------------ C27
\* The GET paths whose payload can become the value of a response key.
PathsOf(key) == IF key = "transcript" THEN {"captions", "track"} ELSE {PathOf(key)}

\* C27: in /api/fetch the task list and the response-key list have the same
\* length at every moment, position i of the tasks holds the fetcher of
\* response key i, no key occurs twice, and in the 200 result every key
\* holds the outcome of the task at its own position, whatever the order in
\* which the tasks settled: the value or the error descriptor of that task,
\* a payload coming from a GET of the fetcher of that key and a descriptor
\* naming that key.
C27_KeysMatchTasks ==
    endpoint = "fetch" =>
        /\ Len(tasks) = Len(responseKeys)
        /\ \A i \in DOMAIN tasks : tasks[i].fn = FetcherOf(responseKeys[i])
        /\ \A i, j \in DOMAIN responseKeys : responseKeys[i] = responseKeys[j] => i = j
        /\ (sent > 0 /\ status = 200) =>
              \A i \in DOMAIN tasks :
                 LET key == responseKeys[i]
                     stored == finalResponse[key] IN
                 IF tasks[i].st = "fulfilled"
                 THEN /\ stored = tasks[i].val
                      /\ stored.tag = "data" => stored.of \in PathsOf(key)
                 ELSE /\ stored.tag = "descriptor"
                      /\ stored.error = "Failed to fetch " \o key
                      /\ stored.details = DescriptorDetails(tasks[i].val)

\* A 200 result for details, comments and a search, the details call having
\* failed with a message and the two others having succeeded.
C27_Witness ==
    /\ endpoint = "fetch" /\ sent = 1 /\ status = 200
    /\ responseKeys = <<"details", "comments", "search_results">>
    /\ tasks[1].st = "rejected" /\ tasks[1].val.info = "Request failed"
    /\ tasks[2].st = "fulfilled" /\ tasks[3].st = "fulfilled"
    /\ finalResponse["comments"].of = "comments"
    /\ finalResponse["search_results"].of = "search"
    /\ finalResponse["details"].details = "Request failed"

\* ------------------------------------------------------------------ C28
\* The handler has nothing left to do.
HandlerEnded == ~ENABLED Next

\* C28: every handler sends exactly one response for a request, on every
\* path: never a second one, one by the time the handler has ended, nothing
\* being done after the response (no upstream call, no other response), and
\* no upstream call at all when the answer is the 400 of a missing
\* parameter.
C28_ExactlyOneResponse ==
    endpoint \in Endpoints =>
        /\ sent <= 1
        /\ HandlerEnded => sent = 1
        /\ sent = 1 => HandlerEnded
        /\ (sent = 1 /\ status = 400) => calls = << >>

\* ------------------------------------------------------------------ C26
\* The two requests in progress have the same parameters.
SameRequest ==
    /\ other.endpoint = endpoint /\ other.videoId = videoId
    /\ other.channelId = channelId /\ other.query = query /\ other.fields = fields

\* Their upstream calls had the same outcomes.
SameOutcomes ==
    /\ other.tasks = tasks
    /\ other.channelSt = channelSt /\ other.channelDetails = channelDetails

SameResponse ==
    /\ other.sent = sent /\ other.status = status /\ other.contentType = contentType
    /\ other.errorBody = errorBody /\ other.finalResponse = finalResponse
    /\ other.report = report

\* C26: two requests handled at the same time do not interfere. However
\* their segments and the answers to their upstream calls interleave, two
\* finished requests with the same parameters and the same outcomes of
\* their own calls have the same response, and the response of a request
\* is made of the outcomes of its own tasks: in /api/fetch each key holds
\* the value or the descriptor of the request's own task, in
\* /api/analyze_video the report is the text for the request's own results.
C26_NoInterference ==
    /\ (pc = "done" /\ other.pc = "done" /\ SameRequest /\ SameOutcomes) => SameResponse
    /\ (endpoint = "fetch" /\ pc = "done") =>
          /\ status = 200
          /\ \A i \in DOMAIN tasks :
                finalResponse[responseKeys[i]] =
                   IF tasks[i].st = "fulfilled" THEN tasks[i].val
                   ELSE [tag |-> "descriptor",
                         error |-> "Failed to fetch " \o responseKeys[i],
                         details |-> DescriptorDetails(tasks[i].val)]
    /\ (endpoint = "analyze_video" /\ pc = "done" /\ detailsResult.st = "fulfilled") =>
          /\ status = 200
          /\ report = ReportText(channelDetails)

\* Two /api/fetch requests for the same fields, both answered, the details
\* call of one having succeeded and that of the other having failed.
C26_Witness ==
    /\ endpoint = "fetch" /\ other.endpoint = "fetch"
    /\ fields = {"details", "comments"} /\ other.fields = fields
    /\ pc = "done" /\ other.pc = "done"
    /\ tasks[1].st = "fulfilled" /\ other.tasks[1].st = "rejected"
    /\ tasks[2].st = "rejected" /\ other.tasks[2].st = "fulfilled"
    /\ finalResponse["details"].tag = "data"
    /\ other.finalResponse["details"].tag = "descriptor"

\* ------------------------------------------------------------------ C29
\* C29: when every upstream call is answered in the end, every /api/fetch
\* and /api/analyze_video request gets its response in the end, whatever
\* mix of successes and failures its calls end with.
C29_EventuallyResponds ==
    (endpoint \in {"fetch", "analyze_video"}) => <>(sent = 1 /\ pc = "done")

\* An /api/analyze_video request answered after its comments and transcript
\* calls and its channel lookup have all failed.
C29_Witness ==
    /\ endpoint = "analyze_video" /\ pc = "done" /\ sent = 1
    /\ Len(tasks) = 3
    /\ detailsResult.st = "fulfilled"
    /\ commentsResult.st = "rejected" /\ transcriptResult.st = "rejected"
    /\ channelSt = "rejected"

====
